---- MODULE Spec2Model ----
(***************************************************************************)
(* Number-theoretic snippets (gcd, bin_pow, totient, is_prime,             *)
(* is_prime_optimized, fermat_test), the equation helpers task4 / task5    *)
(* and the brute-force key search, each modelled as one call: Init draws   *)
(* the arguments, the actions run the function body, pc = "done" holds the *)
(* returned value in ret.                                                  *)
(***************************************************************************)
EXTENDS Integers, Sequences, FiniteSets

VARIABLES
    fn,         \* name of the function being called
    args,       \* its arguments, a record keyed by the parameter names
    pc,         \* position of the call: "call", a loop label, or "done"
    ret,        \* value the call returned (None until it returns)
    trial,      \* fermat_test: loop counter of `for _ in range(n_repeats)`
    candidate,  \* brute: loop variable of `for candidate in range(...)`
    result,     \* brute: value returned by the undecorated function
    start       \* return_time.wraps: the clock reading taken before the call

vars == <<fn, args, pc, ret, trial, candidate, result, start>>

None == "None"

\* ------------------------------------------------------------------ bounds
MaxOperand == 12    \* gcd operands, task4 operands
MaxBase == 8        \* bin_pow base
MaxExp == 8         \* bin_pow exponent
MaxMod == 9         \* bin_pow / task4 modulus
MaxTotient == 40    \* totient argument
MaxNum == 10000       \* argument of the primality tests
MaxRange == 60      \* ends of the interval task5 scans
MaxFermatN == 40    \* fermat_test: number under test
MaxRepeats == 3     \* fermat_test: n_repeats
MaxBits == 8        \* brute: largest bit length of N_BITS that is searched
MaxClock == 1       \* return_time: clock reading at the start of the call
MaxElapsed == 1     \* return_time: clock advance during the call

\* ------------------------------------------------------- snippets.py: gcd
\* A slip in the loop guard: `while b > 1` instead of `while b`.
RECURSIVE gcd_stops_at_one(_, _)
gcd_stops_at_one(a, b) ==
    IF b > 1 THEN gcd_stops_at_one(b, a % b) ELSE a

\* while b: a, b = b, a % b;  return a
RECURSIVE gcd(_, _)
gcd(a, b) ==
    IF b # 0 THEN gcd(b, a % b) ELSE a

\* ---------------------------------------------------- snippets.py: bin_pow
\* The while loop of bin_pow, from the state (power, x, n) to the final power.
RECURSIVE bin_pow_loop(_, _, _, _)
bin_pow_loop(power, x, n, mod) ==
    IF n > 0
    THEN IF n % 2 # 0
         THEN bin_pow_loop((power * x) % mod, x, n - 1, mod)
         ELSE bin_pow_loop(power, (x * x) % mod, n \div 2, mod)
    ELSE power

\* A slip: `return power` without the final reduction modulo mod.
bin_pow_unreduced(x, n, mod) ==
    bin_pow_loop(1, x % mod, n, mod)

\* power = 1; x = x % mod; <loop>; return power % mod
bin_pow(x, n, mod) ==
    bin_pow_loop(1, x % mod, n, mod) % mod

\* ---------------------------------------------------- snippets.py: totient
\* sum(gcd(i, n) == 1 for i in range(1, n))
totient(n) ==
    Cardinality({i \in 1..(n - 1) : gcd(i, n) = 1})

\* ------------------------------------------------ practical_task_1.py: task4
\* A slip: the exponent phi(m) instead of phi(m) - 1.
task4_full_exponent(a, b, MOD) ==
    (b * bin_pow(a, totient(MOD), MOD)) % MOD

\* return (b * bin_pow(a, totient(MOD) - 1, MOD)) % MOD
\* MOD is the module's global modulus, a parameter here so that the formula
\* can be evaluated on moduli small enough to enumerate.
task4(a, b, MOD) ==
    (b * bin_pow(a, totient(MOD) - 1, MOD)) % MOD

\* ------------------------------------------------------- arithmetic calls
ArithCalls ==
    { [f |-> "gcd", in |-> [a |-> a, b |-> b]] :
        a \in 0..MaxOperand, b \in 0..MaxOperand }
    \cup
    { [f |-> "bin_pow", in |-> [x |-> x, n |-> n, mod |-> m]] :
        x \in 0..MaxBase, n \in 0..MaxExp, m \in 1..MaxMod }
    \cup
    { [f |-> "totient", in |-> [n |-> n]] : n \in 1..MaxTotient }
    \cup
    { [f |-> "task4", in |-> [a |-> a, b |-> b, MOD |-> m]] :
        a \in 1..MaxOperand, b \in 0..MaxOperand, m \in 2..MaxMod }

Idle ==
    /\ trial = 0
    /\ candidate = 0
    /\ result = None
    /\ start = 0

InitArith ==
    /\ \E c \in ArithCalls : fn = c.f /\ args = c.in
    /\ pc = "call"
    /\ ret = None
    /\ Idle

Return(v) ==
    /\ pc' = "done"
    /\ ret' = v
    /\ UNCHANGED <<fn, args, trial, candidate, result, start>>

CallGcd ==
    /\ pc = "call" /\ fn = "gcd"
    /\ Return(gcd(args.a, args.b))

CallBinPow ==
    /\ pc = "call" /\ fn = "bin_pow"
    /\ Return(bin_pow(args.x, args.n, args.mod))

CallTotient ==
    /\ pc = "call" /\ fn = "totient"
    /\ Return(totient(args.n))

CallTask4 ==
    /\ pc = "call" /\ fn = "task4"
    /\ Return(task4(args.a, args.b, args.MOD))

NextArith ==
    \/ CallGcd
    \/ CallBinPow
    \/ CallTotient
    \/ CallTask4

SpecArith == InitArith /\ [][NextArith]_vars

\* ------------------------------------------------------- math.isqrt
\* from math import isqrt: the floor of the square root.
isqrt(n) == CHOOSE r \in 0..n : r * r <= n /\ (r + 1) * (r + 1) > n

\* --------------------------------------------------- snippets.py: is_prime
\* if num <= 1: return False
\* for divisor in range(2, isqrt(num) + 1): if not num % divisor: return False
\* return True
is_prime(num) ==
    IF num <= 1
    THEN FALSE
    ELSE \A divisor \in 2..isqrt(num) : num % divisor # 0

\* ----------------------------------------- snippets.py: is_prime_optimized
\* The while loop from `divisor` on: the line of the return statement inside
\* the loop (118) when a divisor is found, 0 when the loop condition fails.
RECURSIVE wheel_loop(_, _)
wheel_loop(num, divisor) ==
    IF divisor * divisor <= num
    THEN IF num % (divisor - 1) = 0 \/ num % (divisor + 1) = 0
         THEN 118
         ELSE wheel_loop(num, divisor + 6)
    ELSE 0

\* The return statement is_prime_optimized(num) leaves by (its line in
\* snippets.py) and the value it returns.
is_prime_optimized_return(num) ==
    IF num <= 1 THEN [line |-> 109, value |-> FALSE]
    ELSE IF num <= 3 THEN [line |-> 111, value |-> TRUE]
    ELSE IF num % 2 = 0 \/ num % 3 = 0 THEN [line |-> 113, value |-> FALSE]
    ELSE IF wheel_loop(num, 6) = 118 THEN [line |-> 118, value |-> FALSE]
    ELSE [line |-> 121, value |-> isqrt(num) * isqrt(num) # num]

is_prime_optimized(num) == is_prime_optimized_return(num).value

\* ------------------------------------------------ practical_task_1.py: task5
\* next((num for num in range(a, b + 1) if check_is_prime(num)), -1)
\* with the default check_is_prime = is_prime_optimized: the first num of the
\* ascending range that passes, or -1.
task5(a, b) ==
    LET passing == {num \in a..b : is_prime_optimized(num)}
    IN  IF passing = {}
        THEN -1
        ELSE CHOOSE num \in passing : \A other \in passing : num <= other

\* ----------------------------------------------------------- prime calls
PrimeCalls ==
    { [f |-> "is_prime", in |-> [num |-> n]] : n \in 0..MaxNum }
    \cup
    { [f |-> "is_prime_optimized", in |-> [num |-> n]] : n \in 0..MaxNum }
    \cup
    { [f |-> "task5", in |-> [a |-> a, b |-> b]] :
        a \in 0..MaxRange, b \in 0..MaxRange }

InitPrime ==
    /\ \E c \in PrimeCalls :
        /\ fn = c.f
        /\ args = c.in
        /\ fn = "task5" => args.a <= args.b
    /\ pc = "call"
    /\ ret = None
    /\ Idle

CallIsPrime ==
    /\ pc = "call" /\ fn = "is_prime"
    /\ Return(is_prime(args.num))

\* ret keeps the return statement taken next to the verdict.
CallIsPrimeOptimized ==
    /\ pc = "call" /\ fn = "is_prime_optimized"
    /\ Return(is_prime_optimized_return(args.num))

CallTask5 ==
    /\ pc = "call" /\ fn = "task5"
    /\ Return(task5(args.a, args.b))

NextPrime ==
    \/ CallIsPrime
    \/ CallIsPrimeOptimized
    \/ CallTask5

SpecPrime == InitPrime /\ [][NextPrime]_vars

\* ------------------------------------------------ snippets.py: fermat_test
\* randint(2, n - 2): any integer of the inclusive range.
randint(lo, hi) == lo..hi

InitFermat ==
    /\ fn = "fermat_test"
    /\ \E n \in 0..MaxFermatN, n_repeats \in 0..MaxRepeats :
        args = [n |-> n, n_repeats |-> n_repeats]
    /\ pc = "call"
    /\ ret = None
    /\ Idle

\* if n == 1 or not n & 1: return False     (`not` applies to `n & 1`)
\* if n == 2 or n == 3: return True
FermatEntry ==
    /\ pc = "call" /\ fn = "fermat_test"
    /\ IF args.n = 1 \/ args.n % 2 = 0
       THEN Return(FALSE)
       ELSE IF args.n = 2 \/ args.n = 3
       THEN Return(TRUE)
       ELSE /\ pc' = "trials"
            /\ trial' = 0
            /\ UNCHANGED <<fn, args, ret, candidate, result, start>>

\* One pass of `for _ in range(n_repeats)`:
\* if bin_pow(randint(2, n - 2), n - 1, n) != 1: return False
FermatTrial ==
    /\ pc = "trials" /\ fn = "fermat_test"
    /\ trial < args.n_repeats
    /\ \E a \in randint(2, args.n - 2) :
        IF bin_pow(a, args.n - 1, args.n) # 1
        THEN Return(FALSE)
        ELSE /\ trial' = trial + 1
             /\ UNCHANGED <<fn, args, pc, ret, candidate, result, start>>

\* The range is exhausted: return True
FermatPassed ==
    /\ pc = "trials" /\ fn = "fermat_test"
    /\ trial = args.n_repeats
    /\ Return(TRUE)

NextFermat ==
    \/ FermatEntry
    \/ FermatTrial
    \/ FermatPassed

SpecFermat == InitFermat /\ [][NextFermat]_vars

\* --------------------------------------------------------- large_numbers.py
\* Strings are sequences of one-character strings.
HexDigits ==
    <<"0", "1", "2", "3", "4", "5", "6", "7",
      "8", "9", "a", "b", "c", "d", "e", "f">>

\* The digits of the built-in hex(): most significant first, no leading zero.
RECURSIVE hex_digits(_)
hex_digits(n) ==
    IF n < 16
    THEN <<HexDigits[n + 1]>>
    ELSE hex_digits(n \div 16) \o <<HexDigits[(n % 16) + 1]>>

\* The built-in hex() of a non-negative integer: '0x' and its digits.
hex(n) == <<"0", "x">> \o hex_digits(n)

\* secrets.token_hex(nbytes): any string of two hex digits per byte.
token_hex(nbytes) ==
    [1..(2 * nbytes) -> {HexDigits[i] : i \in DOMAIN HexDigits}]

\* A slip: one key short, `2 ** bits - 1`.
get_number_of_keys_less_one(bits) == 2 ^ bits - 1

\* return 2 ** bits
get_number_of_keys(bits) == 2 ^ bits

\* return '0x' + secrets.token_hex(bits // 8): the tokens it can return.
get_secret_token(bits) ==
    {<<"0", "x">> \o t : t \in token_hex(bits \div 8)}

\* The bit lengths the driver loops over.
N_BITS == <<8, 16, 32, 64, 128, 256, 512, 1024, 2048, 4096>>

\* One pass of the driver's loop: token = get_secret_token(n_bits), then the
\* call brute(n_bits, token).
InitBrute ==
    /\ fn = "brute"
    /\ \E i \in DOMAIN N_BITS :
        /\ N_BITS[i] <= MaxBits
        /\ \E token \in get_secret_token(N_BITS[i]) :
            args = [bits |-> N_BITS[i], secret |-> token]
    /\ pc = "call"
    /\ ret = None
    /\ trial = 0
    /\ candidate = -1
    /\ result = None
    /\ start = 0

\* wraps: start = time(), then the call of the decorated function.
WrapsStart ==
    /\ pc = "call" /\ fn = "brute"
    /\ \E now \in 0..MaxClock : start' = now
    /\ pc' = "search"
    /\ UNCHANGED <<fn, args, ret, trial, candidate, result>>

\* One pass of `for candidate in range(0, get_number_of_keys(bits) + 1)`:
\* if hex(candidate) == secret: return True
BruteCompare ==
    /\ pc = "search" /\ fn = "brute"
    /\ candidate + 1 < get_number_of_keys(args.bits) + 1
    /\ candidate' = candidate + 1
    /\ IF hex(candidate') = args.secret
       THEN result' = TRUE /\ pc' = "returned"
       ELSE UNCHANGED <<result, pc>>
    /\ UNCHANGED <<fn, args, ret, trial, start>>

\* The range is exhausted: return False
BruteExhausted ==
    /\ pc = "search" /\ fn = "brute"
    /\ ~(candidate + 1 < get_number_of_keys(args.bits) + 1)
    /\ result' = FALSE
    /\ pc' = "returned"
    /\ UNCHANGED <<fn, args, ret, trial, candidate, start>>

\* wraps: return time() - start; the function's own result is dropped.
WrapsReturn ==
    /\ pc = "returned" /\ fn = "brute"
    /\ \E now \in start..(start + MaxElapsed) :
        ret' = [type |-> "float", value |-> now - start]
    /\ pc' = "done"
    /\ UNCHANGED <<fn, args, trial, candidate, result, start>>

NextBrute ==
    \/ WrapsStart
    \/ BruteCompare
    \/ BruteExhausted
    \/ WrapsReturn

SpecBrute == InitBrute /\ [][NextBrute]_vars

\* ================================================================ claims
\* Arithmetic the claims are stated against, defined from the mathematics
\* and not from the code.
Divides(d, n) == \E k \in 0..n : n = k * d

CommonDivisors(a, b) == {d \in 0..(a + b + 1) : Divides(d, a) /\ Divides(d, b)}

Coprime(a, b) == \A d \in 2..(a + b) : ~(Divides(d, a) /\ Divides(d, b))

RECURSIVE Power(_, _)
Power(a, n) == IF n = 0 THEN 1 ELSE a * Power(a, n - 1)

Returned(f) == pc = "done" /\ fn = f

\* C4: for all a >= 0, n >= 0, m >= 1, bin_pow(a, n, m) returns (a^n) mod m,
\* a number in [0, m-1]; exponent 0 yields 1 mod m and modulus 1 yields 0.
C4_BinPowIsPowerMod ==
    Returned("bin_pow") =>
        /\ ret = Power(args.x, args.n) % args.mod
        /\ ret \in 0..(args.mod - 1)
        /\ (args.n = 0 => ret = 1 % args.mod)
        /\ (args.mod = 1 => ret = 0)

\* bin_pow(3, 5, 7) has returned 243 mod 7 = 5: both branches of the loop ran.
C4_Witness ==
    /\ Returned("bin_pow")
    /\ args = [x |-> 3, n |-> 5, mod |-> 7]
    /\ ret = 5

\* C5 as stated: for all non-negative a and b, both 0 included, gcd(a, b)
\* divides a and b, is the largest integer that divides both, and
\* gcd(a, 0) = a.
C5_GcdLargestCommonDivisor ==
    Returned("gcd") =>
        /\ ret \in CommonDivisors(args.a, args.b)
        /\ \A d \in CommonDivisors(args.a, args.b) : d <= ret
        /\ (args.b = 0 => ret = args.a)

\* C5 amended: for all non-negative a and b, gcd(a, b) divides a and b and
\* gcd(a, 0) = a; when a and b are not both 0 it is the largest integer that
\* divides both (for a = b = 0 every integer divides both, none is largest,
\* and gcd returns 0).
C5_GcdLargestUnlessBothZero ==
    Returned("gcd") =>
        /\ ret \in CommonDivisors(args.a, args.b)
        /\ (args.a + args.b > 0 =>
                \A d \in CommonDivisors(args.a, args.b) : d <= ret)
        /\ (args.b = 0 => ret = args.a)

\* gcd has returned a proper common divisor of two positive operands.
C5_Witness ==
    /\ Returned("gcd")
    /\ args.a > 0 /\ args.b > 0
    /\ 1 < ret /\ ret < args.a /\ ret < args.b

\* C7: for a modulus m >= 2, all a >= 1 coprime to m and all b >= 0, the
\* value x = task4(a, b) lies in [0, m-1] and satisfies (a * x) mod m =
\* b mod m.
C7_Task4SolvesCongruence ==
    (Returned("task4") /\ Coprime(args.a, args.MOD)) =>
        /\ ret \in 0..(args.MOD - 1)
        /\ (args.a * ret) % args.MOD = args.b % args.MOD

\* task4 has returned for a composite modulus, a not congruent to 1 and a
\* non-zero right-hand side.
C7_Witness ==
    /\ Returned("task4")
    /\ args.MOD = 9 /\ args.a = 2 /\ args.b = 5
    /\ Coprime(args.a, args.MOD)
    /\ ret = 7

\* C8: for all n >= 1 and m >= 1 with gcd(n, m) = 1,
\* totient(n * m) = totient(n) * totient(m).
C8_TotientMultiplicative ==
    Returned("totient") =>
        \A n \in 1..args.n, m \in 1..args.n :
            (n * m = args.n /\ Coprime(n, m)) =>
                ret = totient(n) * totient(m)

\* Primality by definition: n > 1 with no divisor strictly between 1 and n.
IsPrime(n) == n > 1 /\ \A d \in 2..(n - 1) : n % d # 0

\* C1: for every n in [0, 10000], is_prime(n) and is_prime_optimized(n)
\* return the same verdict.
C1_PrimalityTestsAgree ==
    Returned("is_prime_optimized") => ret.value = is_prime(args.num)

\* C3: for 0 <= a <= b, task5(a, b) with the default test returns the
\* smallest prime of [a, b], and -1 when [a, b] holds no prime.
C3_Task5SmallestPrime ==
    Returned("task5") =>
        IF \E p \in args.a..args.b : IsPrime(p)
        THEN /\ ret \in args.a..args.b
             /\ IsPrime(ret)
             /\ \A p \in args.a..(ret - 1) : ~IsPrime(p)
        ELSE ret = -1

\* C9: whenever the 6k+-1 loop of is_prime_optimized exits without having
\* found a divisor (the call leaves by the final return, line 121), the
\* comparison isqrt(num)**2 != num is true.
C9_SquareFallbackRedundant ==
    (Returned("is_prime_optimized") /\ ret.line = 121) => ret.value = TRUE

\* C2: for every prime n, every repeat count and every sequence of random
\* witnesses, fermat_test(n, repeats) returns true.
C2_FermatAcceptsPrimes ==
    (Returned("fermat_test") /\ IsPrime(args.n)) => ret = TRUE

\* The call as the driver makes it returned the boolean true.
ReturnsTrue == ret.type = "bool" /\ ret.value = TRUE

\* Some integer of the inclusive key space renders as the secret.
SecretInKeySpace == \E c \in 0..(2 ^ args.bits) : hex(c) = args.secret

\* C6 as stated: a call brute(bits, secret), as the driver invokes it,
\* returns the boolean true exactly when some c in [0, 2^bits] has
\* hex(c) = secret, stopping at the first such c, and otherwise compares
\* every integer of [0, 2^bits] before finishing with a non-true result.
C6_BruteReturnsTrueIffFound ==
    Returned("brute") =>
        /\ ReturnsTrue <=> SecretInKeySpace
        /\ ReturnsTrue =>
            /\ hex(candidate) = args.secret
            /\ \A c \in 0..(candidate - 1) : hex(c) # args.secret
        /\ ~ReturnsTrue => candidate = 2 ^ args.bits

\* C6 amended: the search loop of brute yields true exactly when some c in
\* [0, 2^bits] has hex(c) = secret, stopping at the first such c, and
\* otherwise compares every integer of [0, 2^bits] and yields false; the call
\* as the driver invokes it (through return_time) drops that verdict and
\* returns the elapsed time, never the boolean true.
C6_SearchVerdictDroppedByTimer ==
    /\ (fn = "brute" /\ pc \in {"returned", "done"}) =>
        /\ result = TRUE <=> SecretInKeySpace
        /\ result = TRUE =>
            /\ hex(candidate) = args.secret
            /\ \A c \in 0..(candidate - 1) : hex(c) # args.secret
        /\ result # TRUE =>
            /\ result = FALSE
            /\ candidate = 2 ^ args.bits
    /\ Returned("brute") =>
        /\ ret.type = "float"
        /\ ~ReturnsTrue

\* The timed call returned after the search stopped at a two-digit match.
C6_Witness ==
    /\ Returned("brute")
    /\ result = TRUE
    /\ candidate > 15
    /\ hex(candidate) = args.secret
    /\ ret.type = "float"

\* C10: for every bit length that is a positive multiple of 8 and every token
\* get_secret_token(bits) can produce, the search loop of brute(bits, token)
\* reaches a candidate c in [0, 2^bits] with hex(c) = token.
C10_GeneratedSecretIsFound ==
    (Returned("brute") /\ args.bits % 8 = 0
        /\ args.secret \in get_secret_token(args.bits)) =>
        /\ result = TRUE
        /\ candidate \in 0..(2 ^ args.bits)
        /\ hex(candidate) = args.secret

====
